---- MODULE Spec2Model ----
(***************************************************************************)
(* Model of the survey dashboard script app.py: the cached loader          *)
(* load_data() and one run of the script (KPIs, then the four tabs), as a  *)
(* state machine.  A run that raises stops where it raised (error is set). *)
(***************************************************************************)
EXTENDS Integers, Sequences, FiniteSets, TLC

VARIABLES now,        \* the clock st.cache_data reads, in seconds
          sheet,      \* the Google Sheet as it is now: [header, rows]
          cache,      \* st.cache_data's entry for load_data: [valid, snapshot, fetchedAt]
          fetched,    \* history: the payload read_csv returned at the last successful fetch
          fetches,    \* history: number of read_csv calls made
          last_call,  \* history: how the last load_data() call was served
          replaced,   \* history: number of entries a later fetch has replaced
          pc,         \* position of the script run; a run that raised stays where it raised
          error,      \* the exception that stopped the run, or NoError
          selected,   \* what the two selectboxes returned in this run
          frames,     \* the frames bound to the script's names df, this_ab, fb_df
          out         \* what each section has rendered in this run

vars == <<now, sheet, cache, fetched, fetches, last_call, replaced, pc, error, selected,
          frames, out>>

----------------------------------------------------------------------------
(* Bounds of the model *)

MaxRows == 3
MaxSheetRows == 2
MaxTime == 122
MaxFetches == 2

(* Program constants *)

TTL == 60

NaN == "NaN"

METRIC_LABELS ==
    [act |-> "Liked / Likely to Act", mot |-> "Motivating", trust |-> "Trustworthy"]

Range(f) == {f[x] : x \in DOMAIN f}

INV_METRIC_LABELS ==
    [v \in Range(METRIC_LABELS) |->
        CHOOSE k \in DOMAIN METRIC_LABELS : METRIC_LABELS[k] = v]

COMPARISON_LABELS ==
    [ab1 |-> "img1 vs img4", ab2 |-> "img11 vs img14",
     ab3 |-> "img16 vs img7", ab4 |-> "img21 vs img9"]

\* COMPARISON_LABELS.items() iterates in insertion order
COMPARISON_KEYS == <<"ab1", "ab2", "ab3", "ab4">>

----------------------------------------------------------------------------
(* Sequences *)

SeqToSet(s) == {s[i] : i \in DOMAIN s}

SeqsUpTo(S, n) == UNION {[1..k -> S] : k \in 0..n}

RECURSIVE SumSeq(_)
SumSeq(s) == IF s = <<>> THEN 0 ELSE Head(s) + SumSeq(Tail(s))

\* Series.unique(): the distinct values in order of first appearance
RECURSIVE unique(_)
unique(s) ==
    IF s = <<>> THEN <<>>
    ELSE LET init == unique(SubSeq(s, 1, Len(s) - 1))
             x == s[Len(s)]
         IN IF x \in SeqToSet(init) THEN init ELSE Append(init, x)

Count(s, x) == Cardinality({i \in DOMAIN s : s[i] = x})

\* a stable insertion sort of <<key, item>> pairs by key, ascending
RECURSIVE InsertPair(_, _)
InsertPair(x, s) ==
    IF s = <<>> THEN <<x>>
    ELSE IF x[1] < Head(s)[1] THEN <<x>> \o s
    ELSE <<Head(s)>> \o InsertPair(x, Tail(s))

RECURSIVE SortPairs(_)
SortPairs(s) ==
    IF s = <<>> THEN <<>>
    ELSE InsertPair(s[Len(s)], SortPairs(SubSeq(s, 1, Len(s) - 1)))

Items(pairs) == [i \in DOMAIN pairs |-> pairs[i][2]]

----------------------------------------------------------------------------
(* Text.  TLA+ strings are atoms, so the texts the model uses are listed   *)
(* with their characters, and with their place in Python's string order.   *)

Chars ==
    [t \in {"3", "5", "2", "4", "12", "-4", "3x", "bad", "-"} |->
        CASE t = "3"   -> <<"3">>
          [] t = "5"   -> <<"5">>
          [] t = "2"   -> <<"2">>
          [] t = "4"   -> <<"4">>
          [] t = "12"  -> <<"1", "2">>
          [] t = "-4"  -> <<"-", "4">>
          [] t = "3x"  -> <<"3", "x">>
          [] t = "bad" -> <<"b", "a", "d">>
          [] t = "-"   -> <<"-">>]

DigitVal ==
    [c \in {"0", "1", "2", "3", "4", "5", "6", "7", "8", "9"} |->
        CASE c = "0" -> 0 [] c = "1" -> 1 [] c = "2" -> 2 [] c = "3" -> 3
          [] c = "4" -> 4 [] c = "5" -> 5 [] c = "6" -> 6 [] c = "7" -> 7
          [] c = "8" -> 8 [] c = "9" -> 9]

\* the digits of cs folded into acc: <<n>>, or <<>> at a character that is no digit
RECURSIVE ParseDigits(_, _)
ParseDigits(cs, acc) ==
    IF cs = <<>> THEN <<acc>>
    ELSE IF Head(cs) \in DOMAIN DigitVal
         THEN ParseDigits(Tail(cs), 10 * acc + DigitVal[Head(cs)])
         ELSE <<>>

\* an integer literal with an optional sign: <<n>>, or <<>> when cs is none
ParseNumber(cs) ==
    IF cs = <<>> THEN <<>>
    ELSE IF Head(cs) = "-"
         THEN IF Tail(cs) = <<>> THEN <<>>
              ELSE LET p == ParseDigits(Tail(cs), 0)
                   IN IF p = <<>> THEN <<>> ELSE <<0 - p[1]>>
         ELSE ParseDigits(cs, 0)

to_numeric_fill(cell) ==
    IF cell = NaN \/ cell \notin DOMAIN Chars \/ ParseNumber(Chars[cell]) = <<>>
    THEN <<0>>
    ELSE ParseNumber(Chars[cell])

\* pd.to_numeric(errors="coerce") on one cell: <<n>>, or <<>> (NaN) for a
\* missing cell and for text that is no number; a text without listed
\* characters (a choice label, free text) is no number
to_numeric(cell) ==
    IF cell = NaN THEN <<>>
    ELSE IF cell \in DOMAIN Chars THEN ParseNumber(Chars[cell])
    ELSE <<>>

\* Python's order of the texts the script sorts: the metric labels (sorted()
\* at line 95), the image names (sorted() at line 101) and the session ids
\* (groupby sorts its keys, line 130)
StrOrder ==
    <<"Liked / Likely to Act", "Motivating", "Trustworthy",
      "img1", "img2", "s1", "s2">>

StrRank(t) == CHOOSE i \in DOMAIN StrOrder : StrOrder[i] = t

sorted(s) == Items(SortPairs([i \in DOMAIN s |-> <<StrRank(s[i]), s[i]>>]))

----------------------------------------------------------------------------
(* Frames.  A frame is [cols, rows]: the set of its column names and the   *)
(* sequence of its rows, each a function from the column names to cells.   *)
(* A text cell is a string, NaN when missing; a cell of value_num or       *)
(* timestamp is <<x>>, or <<>> when missing (NaN, NaT).                    *)

Unbound == [cols |-> {}, rows |-> <<>>]

IsNA(c, x) == IF c \in {"value_num", "timestamp"} THEN x = <<>> ELSE x = NaN

Col(fr, c) == [i \in DOMAIN fr.rows |-> fr.rows[i][c]]

\* s.dropna() of the column c
dropna(c, s) == SelectSeq(s, LAMBDA x : ~IsNA(c, x))

\* fr[fr[c] == v]: a comparison with a missing cell is False
FilterEq(fr, c, v) ==
    [cols |-> fr.cols, rows |-> SelectSeq(fr.rows, LAMBDA r : r[c] = v)]

\* fr.copy(): a new frame with the same columns and rows
Copy(fr) == [cols |-> fr.cols, rows |-> fr.rows]

\* fr[cs]: the columns cs of fr
Project(fr, cs) ==
    [cols |-> cs, rows |-> [i \in DOMAIN fr.rows |-> [c \in cs |-> fr.rows[i][c]]]]

DropNaRowsKeepAll(fr) == fr

\* fr[cs].dropna(): the rows with no missing cell in the columns cs
DropNaRows(fr) ==
    [cols |-> fr.cols,
     rows |-> SelectSeq(fr.rows, LAMBDA r : \A c \in fr.cols : ~IsNA(c, r[c]))]

\* fr[new] = fr[old]
WithColumn(fr, new, old) ==
    [cols |-> fr.cols \cup {new},
     rows |-> [i \in DOMAIN fr.rows |->
                 [c \in fr.cols \cup {new} |->
                     IF c = new THEN fr.rows[i][old] ELSE fr.rows[i][c]]]]

\* fr.rename(columns={old: new})
Rename(fr, old, new) ==
    IF old \notin fr.cols THEN fr
    ELSE LET cs == (fr.cols \ {old}) \cup {new}
         IN [cols |-> cs,
             rows |-> [i \in DOMAIN fr.rows |->
                         [c \in cs |->
                             IF c = new THEN fr.rows[i][old] ELSE fr.rows[i][c]]]]

\* Series.nunique(): the number of distinct values that are not missing
nunique(c, s) == Cardinality(SeqToSet(dropna(c, s)))

value_counts_unsorted(c, s) ==
    LET vals == dropna(c, s)
        keys == unique(vals)
    IN [i \in DOMAIN keys |-> [value |-> keys[i], count |-> Count(vals, keys[i])]]

\* Series.value_counts(): one entry per distinct value that is not missing,
\* by count descending; the sort is stable, so equal counts keep the order of
\* first appearance
value_counts(c, s) ==
    LET vals == dropna(c, s)
        keys == unique(vals)
    IN Items(SortPairs([i \in DOMAIN keys |->
                <<0 - Count(vals, keys[i]),
                  [value |-> keys[i], count |-> Count(vals, keys[i])]>>]))

----------------------------------------------------------------------------
(* The data loader, lines 30-47 *)

\* pandas reads an empty cell, and the texts it lists as missing, as NaN
na_values == {"", "NaN", "NA"}

read_csv_cell(text) == IF text \in na_values THEN NaN ELSE text

\* c.strip().lower() of the header spellings the model uses
strip_lower(h) ==
    CASE h \in {"timestamp", " Timestamp"}   -> "timestamp"
      [] h \in {"session_id", "Session_ID "} -> "session_id"
      [] h \in {"type", "Type"}              -> "type"
      [] h \in {"image_name", "Image_Name"}  -> "image_name"
      [] h \in {"metric", " METRIC "}        -> "metric"
      [] h \in {"value", "Value"}            -> "value"

DateTexts == {"2024-05-01 10:00"}

\* pd.to_datetime(errors="coerce") on one cell
to_datetime(cell) == IF cell \in DateTexts THEN <<cell>> ELSE <<>>

\* the body of load_data() on the payload raw that read_csv returned
load_frame(raw) ==
    LET cols0 == {strip_lower(h) : h \in raw.header}
        Spelled(c) == CHOOSE h \in raw.header : strip_lower(h) = c
        Cell(r, c) == read_csv_cell(r[Spelled(c)])
    IN [cols |-> cols0 \cup {"value_num"},
        rows |-> [i \in DOMAIN raw.rows |->
                    [c \in cols0 \cup {"value_num"} |->
                        IF c = "value_num"
                        THEN IF "value" \in cols0
                             THEN to_numeric(Cell(raw.rows[i], "value"))
                             ELSE <<>>
                        ELSE IF c = "timestamp"
                        THEN to_datetime(Cell(raw.rows[i], "timestamp"))
                        ELSE Cell(raw.rows[i], c)]]]

NoError == "none"

NotRun == [status |-> "none"]

NoOutput == [kpi |-> NotRun, tab1 |-> NotRun, tab2 |-> NotRun,
             tab3 |-> NotRun, tab4 |-> NotRun]

NoSelection == [metric |-> "unset", comp |-> "unset"]

NoFrames == [n \in {"df", "this_ab", "fb_df"} |-> Unbound]

\* an exception the script does not catch ends the run
Raise(e, f, sel) ==
    /\ error' = e
    /\ frames' = f
    /\ selected' = sel
    /\ UNCHANGED <<now, sheet, cache, fetched, fetches, last_call, replaced, pc, out>>

\* @st.cache_data(ttl=60): an entry is served while it is younger than TTL
fresh_inclusive(entry, t) == entry.valid /\ t - entry.fetchedAt <= TTL

fresh(entry, t) == entry.valid /\ t - entry.fetchedAt < TTL

\* df = load_data(), line 56, under @st.cache_data(ttl=60): a fresh entry is
\* returned as it is; otherwise the body runs, and its result replaces the
\* entry.  read_csv may raise (the sheet cannot be reached).
LoadData ==
    /\ pc = "start"
    /\ error = NoError
    /\ IF fresh(cache, now)
       THEN /\ frames' = [frames EXCEPT !["df"] = Copy(cache.snapshot)]
            /\ last_call' = "hit"
            /\ pc' = "kpi"
            /\ UNCHANGED replaced
            /\ UNCHANGED <<now, sheet, cache, fetched, fetches, error, selected, out>>
       ELSE /\ fetches < MaxFetches
            /\ fetches' = fetches + 1
            /\ last_call' = "miss"
            /\ \E ok \in BOOLEAN :
                 IF ok
                 THEN /\ cache' = [valid |-> TRUE, snapshot |-> load_frame(sheet),
                                   fetchedAt |-> now]
                      /\ fetched' = sheet
                      /\ replaced' = IF cache.valid THEN replaced + 1 ELSE replaced
                      /\ frames' = [frames EXCEPT !["df"] = load_frame(sheet)]
                      /\ pc' = "kpi"
                      /\ UNCHANGED <<now, sheet, error, selected, out>>
                 ELSE /\ error' = "DataUnavailable"
                      /\ UNCHANGED replaced
                      /\ UNCHANGED <<now, sheet, cache, fetched, pc, selected, frames, out>>

\* the three KPIs, lines 59-65
Kpi ==
    /\ pc = "kpi"
    /\ error = NoError
    /\ LET df == frames["df"]
       IN IF ~({"session_id", "type", "image_name"} \subseteq df.cols)
          THEN Raise("KeyError", frames, selected)
          ELSE /\ out' = [out EXCEPT !.kpi =
                    [status |-> "rendered",
                     rows |-> Len(df.rows),
                     participants |-> nunique("session_id", Col(df, "session_id")),
                     images |-> nunique("image_name",
                                  Col(FilterEq(df, "type", "rating"), "image_name"))]]
               /\ pc' = "tab1"
               /\ UNCHANGED <<now, sheet, cache, fetched, fetches, last_call, replaced, error, selected, frames>>

----------------------------------------------------------------------------
(* Widgets *)

None == "None"

\* st.selectbox(options, index=0) returns the option the user has selected,
\* and None when there is no option
selectbox(options) == IF options = <<>> THEN {None} ELSE SeqToSet(options)

----------------------------------------------------------------------------
(* Tab 1: image ratings, lines 80-187 *)

\* per_user_df, lines 127-132: the mean of value_num per session_id, over
\* the rows where neither is missing; groupby sorts the session ids and
\* leaves a missing one out, and mean() skips a missing value.  A mean is
\* kept exact, as [sum, n].
per_user(img_metric_df) ==
    LET kept == DropNaRows(Project(img_metric_df, {"session_id", "value_num"}))
        ids == sorted(unique(dropna("session_id", Col(kept, "session_id"))))
        Vals(id) == LET mine == dropna("value_num",
                                    Col(FilterEq(kept, "session_id", id), "value_num"))
                    IN [i \in DOMAIN mine |-> mine[i][1]]
    IN [i \in DOMAIN ids |->
          [session_id |-> ids[i],
           value_num |-> [sum |-> SumSeq(Vals(ids[i])), n |-> Len(Vals(ids[i]))]]]

dist_unsorted(img_metric_df) ==
    LET counted == value_counts("value_num", Col(img_metric_df, "value_num"))
    IN [i \in DOMAIN counted |->
          [rating |-> counted[i].value[1], count |-> counted[i].count]]

\* dist_df, lines 156-163: the count of each rating that occurs, by rating
dist(img_metric_df) ==
    LET counted == value_counts("value_num", Col(img_metric_df, "value_num"))
    IN Items(SortPairs([i \in DOMAIN counted |->
                <<counted[i].value[1],
                  [rating |-> counted[i].value[1], count |-> counted[i].count]>>]))

\* the body of one image tab, lines 110-187
image_tab(ratings_df, selected_metric, img_name) ==
    LET img_metric_df ==
            Copy(FilterEq(FilterEq(ratings_df, "metric", selected_metric),
                          "image_name", img_name))
    IN IF img_metric_df.rows = <<>>
       THEN [image |-> img_name, status |-> "warning"]
       ELSE [image |-> img_name, status |-> "charts",
             per_user_df |-> per_user(img_metric_df),
             dist_df |-> dist(img_metric_df)]

Tab1 ==
    /\ pc = "tab1"
    /\ error = NoError
    /\ LET ratings_df == Copy(FilterEq(frames["df"], "type", "rating"))
       IN IF ratings_df.rows = <<>>
          THEN /\ out' = [out EXCEPT !.tab1 = [status |-> "warning"]]
               /\ pc' = "tab2"
               /\ UNCHANGED <<now, sheet, cache, fetched, fetches, last_call, replaced, error, selected, frames>>
          ELSE IF "metric" \notin ratings_df.cols
          THEN Raise("KeyError", frames, selected)
          ELSE
            LET raw_metrics == unique(dropna("metric", Col(ratings_df, "metric")))
                mapped == SelectSeq(raw_metrics, LAMBDA m : m \in DOMAIN METRIC_LABELS)
                metric_options == [i \in DOMAIN mapped |-> METRIC_LABELS[mapped[i]]]
            IN \E selected_metric_label \in selectbox(sorted(metric_options)) :
                 LET sel == [selected EXCEPT !.metric = selected_metric_label]
                 IN
                 IF selected_metric_label \notin DOMAIN INV_METRIC_LABELS
                 THEN Raise("KeyError", frames, sel)
                 ELSE
                   LET selected_metric == INV_METRIC_LABELS[selected_metric_label]
                       image_options ==
                           sorted(unique(dropna("image_name",
                                                Col(ratings_df, "image_name"))))
                   IN IF image_options = <<>>
                      THEN Raise("StreamlitAPIException", frames, sel)
                      ELSE /\ out' = [out EXCEPT !.tab1 =
                                [status |-> "rendered",
                                 metric |-> selected_metric,
                                 images |-> [i \in DOMAIN image_options |->
                                     image_tab(ratings_df, selected_metric,
                                               image_options[i])]]]
                           /\ selected' = sel
                           /\ pc' = "tab2"
                           /\ UNCHANGED <<now, sheet, cache, fetched, fetches, last_call, replaced, error, frames>>

----------------------------------------------------------------------------
(* Tab 2: comparisons, lines 192-258 *)

\* COMPARISON_LABELS.get(x, x), line 218
pretty(x) == IF x \in DOMAIN COMPARISON_LABELS THEN COMPARISON_LABELS[x] ELSE x

\* [k for k, v in COMPARISON_LABELS.items() if v == selected_pretty], line 230
keys_of(selected_pretty) ==
    SelectSeq(COMPARISON_KEYS, LAMBDA k : COMPARISON_LABELS[k] = selected_pretty)

\* the name whose frame line 234 gives the column choice
ChoiceFrameShared == "df"

ChoiceFrame == "this_ab"

Tab2 ==
    /\ pc = "tab2"
    /\ error = NoError
    /\ LET ab_df == Copy(FilterEq(frames["df"], "type", "ab"))
       IN IF ab_df.rows = <<>>
          THEN /\ out' = [out EXCEPT !.tab2 = [status |-> "warning"]]
               /\ pc' = "tab3"
               /\ UNCHANGED <<now, sheet, cache, fetched, fetches, last_call, replaced, error, selected, frames>>
          ELSE
            LET comp_options == unique(dropna("image_name", Col(ab_df, "image_name")))
                pretty_options == [i \in DOMAIN comp_options |-> pretty(comp_options[i])]
            IN \E selected_pretty \in selectbox(pretty_options) :
                 LET sel == [selected EXCEPT !.comp = selected_pretty]
                 IN
                 IF keys_of(selected_pretty) = <<>>
                 THEN Raise("IndexError", frames, sel)
                 ELSE
                   LET selected_comp == keys_of(selected_pretty)[1]
                       bound == [frames EXCEPT !["this_ab"] =
                                    Copy(FilterEq(ab_df, "image_name", selected_comp))]
                   IN IF "value" \notin bound[ChoiceFrame].cols
                      THEN Raise("KeyError", bound, sel)
                      ELSE
                        LET assigned == [bound EXCEPT ![ChoiceFrame] =
                                WithColumn(bound[ChoiceFrame], "choice", "value")]
                            this_ab == assigned["this_ab"]
                        IN IF ~({"choice", "timestamp", "session_id",
                                 "image_name", "value"} \subseteq this_ab.cols)
                           THEN Raise("KeyError", assigned, sel)
                           ELSE /\ out' = [out EXCEPT !.tab2 =
                                     [status |-> "rendered",
                                      selected_pretty |-> selected_pretty,
                                      selected_comp |-> selected_comp,
                                      summary |-> value_counts("choice",
                                                      Col(this_ab, "choice")),
                                      table |-> Project(this_ab,
                                          {"timestamp", "session_id",
                                           "image_name", "value"}).rows]]
                                /\ frames' = assigned
                                /\ selected' = sel
                                /\ pc' = "tab3"
                                /\ UNCHANGED <<now, sheet, cache, fetched, fetches, last_call, replaced, error>>

----------------------------------------------------------------------------
(* Tab 3: general questions, lines 263-328 *)

\* one question's column, lines 275-288, 292-311 and 315-328
question(gen_df, key) ==
    LET q_df == Copy(FilterEq(gen_df, "image_name", key))
    IN IF q_df.rows # <<>>
       THEN [status |-> "chart", summary |-> value_counts("value", Col(q_df, "value"))]
       ELSE [status |-> "info"]

Tab3 ==
    /\ pc = "tab3"
    /\ error = NoError
    /\ LET gen_df == Copy(FilterEq(frames["df"], "type", "general"))
       IN IF gen_df.rows = <<>>
          THEN /\ out' = [out EXCEPT !.tab3 = [status |-> "warning"]]
               /\ pc' = "tab4"
               /\ UNCHANGED <<now, sheet, cache, fetched, fetches, last_call, replaced, error, selected, frames>>
          ELSE IF "value" \notin gen_df.cols
                  /\ \E i \in DOMAIN gen_df.rows :
                        gen_df.rows[i]["image_name"]
                            \in {"motivatesMost", "ignore", "frequency"}
          THEN Raise("KeyError", frames, selected)
          ELSE /\ out' = [out EXCEPT !.tab3 =
                    [status |-> "rendered",
                     motivatesMost |-> question(gen_df, "motivatesMost"),
                     ignore |-> question(gen_df, "ignore"),
                     frequency |-> question(gen_df, "frequency")]]
               /\ pc' = "tab4"
               /\ UNCHANGED <<now, sheet, cache, fetched, fetches, last_call, replaced, error, selected, frames>>

----------------------------------------------------------------------------
(* Tab 4: feedback, lines 333-344 *)

Tab4 ==
    /\ pc = "tab4"
    /\ error = NoError
    /\ LET fb_df == Copy(FilterEq(frames["df"], "type", "feedback"))
       IN IF fb_df.rows = <<>>
          THEN /\ out' = [out EXCEPT !.tab4 = [status |-> "info"]]
               /\ frames' = [frames EXCEPT !["fb_df"] = fb_df]
               /\ pc' = "done"
               /\ UNCHANGED <<now, sheet, cache, fetched, fetches, last_call, replaced, error, selected>>
          ELSE
            LET renamed == [frames EXCEPT !["fb_df"] =
                               Rename(fb_df, "value", "feedback_text")]
            IN IF ~({"timestamp", "session_id", "feedback_text"}
                       \subseteq renamed["fb_df"].cols)
               THEN Raise("KeyError", renamed, selected)
               ELSE /\ out' = [out EXCEPT !.tab4 =
                         [status |-> "rendered",
                          table |-> Project(renamed["fb_df"],
                              {"timestamp", "session_id", "feedback_text"}).rows]]
                    /\ frames' = renamed
                    /\ pc' = "done"
                    /\ UNCHANGED <<now, sheet, cache, fetched, fetches, last_call, replaced, error, selected>>

\* any interaction of the user runs the script again, from its first line
Rerun ==
    /\ pc = "done" \/ error # NoError
    /\ pc' = "start"
    /\ error' = NoError
    /\ selected' = NoSelection
    /\ frames' = NoFrames
    /\ out' = NoOutput
    /\ UNCHANGED <<now, sheet, cache, fetched, fetches, last_call, replaced>>

----------------------------------------------------------------------------
(* The environment: time passes, and the survey appends responses *)

TickSteps == {30, 59, 61}

Tick(d) ==
    /\ now + d <= MaxTime
    /\ now' = now + d
    /\ UNCHANGED <<sheet, cache, fetched, fetches, last_call, replaced, pc, error, selected, frames, out>>

Append1(r) ==
    /\ Len(sheet.rows) < MaxSheetRows
    /\ sheet' = [sheet EXCEPT !.rows = Append(@, [h \in sheet.header |-> r[strip_lower(h)]])]
    /\ UNCHANGED <<now, cache, fetched, fetches, last_call, replaced, pc, error, selected, frames, out>>

----------------------------------------------------------------------------
(* Sheets *)

Plain == {"timestamp", "session_id", "type", "image_name", "metric", "value"}

Padded == {" Timestamp", "Session_ID ", "Type", "Image_Name", " METRIC ", "Value"}

NoMetric == Plain \ {"metric"}

Stamp == "2024-05-01 10:00"

Response(type, image_name, metric, session_id, value) ==
    [timestamp |-> Stamp, session_id |-> session_id, type |-> type,
     image_name |-> image_name, metric |-> metric, value |-> value]

MkSheet(header, rows) ==
    [header |-> header,
     rows |-> [i \in DOMAIN rows |-> [h \in header |-> rows[i][strip_lower(h)]]]]

NoSheet == [header |-> {}, rows |-> <<>>]

RatingRows ==
    {Response("rating", "img1", "act", "s1", v) : v \in {"2", "4", ""}}
    \cup {Response("rating", "img1", "act", "s2", v) : v \in {"4", ""}}
    \cup {Response("rating", "img1", "act", "", "2"),
          Response("rating", "img2", "act", "s1", "5"),
          Response("rating", "img1", "mot", "s2", "3")}

ValueRows ==
    {Response("rating", "img1", "act", "s1", v) :
        v \in {"3", "5", "bad", "", "12", "-4", "3x", "-"}}

AbRows ==
    {Response("ab", k, "", "s1", v) :
        k \in {"ab1", "ab2"}, v \in {"A", "B", "Neither", ""}}

EdgeRows ==
    {Response("rating", "img1", "zzz", "s1", "3"),
     Response("rating", "img1", "", "s1", "3"),
     Response("rating", "", "act", "s1", "3"),
     Response("ab", "ab1", "", "s1", "A"),
     Response("ab", "ab5", "", "s1", "A"),
     Response("ab", "img1 vs img4", "", "s2", "B"),
     Response("ab", "", "", "s1", "A"),
     Response("feedback", "", "", "s2", "nice"),
     Response("survey", "", "", "s1", "")}

HeaderRows ==
    {Response("rating", "img1", "act", "s1", "4"),
     Response("ab", "ab1", "", "s1", "A"),
     Response("general", "motivatesMost", "", "s2", "Humor"),
     Response("feedback", "", "", "s2", "nice")}

\* the examples of the specification: its properties 5, 6 and 7
Examples ==
    {<<Response("rating", "img1", "act", "s1", "3"),
       Response("rating", "img1", "act", "s1", "bad"),
       Response("rating", "img1", "act", "s1", ""),
       Response("rating", "img1", "act", "s1", "5")>>,
     <<Response("rating", "img1", "act", "s1", "4"),
       Response("rating", "img1", "act", "s2", "4"),
       Response("rating", "img1", "act", "s1", "2")>>,
     <<Response("ab", "ab1", "", "s1", "A"),
       Response("ab", "ab1", "", "s2", "A"),
       Response("ab", "ab1", "", "s1", "B"),
       Response("ab", "ab1", "", "s2", "Neither")>>}

Sheets ==
    {MkSheet(Plain, d) :
        d \in SeqsUpTo(RatingRows, MaxRows) \cup SeqsUpTo(ValueRows, MaxRows)
              \cup SeqsUpTo(AbRows, MaxRows) \cup SeqsUpTo(EdgeRows, MaxRows)
              \cup Examples}
    \cup {MkSheet(h, d) : h \in {Padded, NoMetric}, d \in SeqsUpTo(HeaderRows, MaxRows)}

\* the responses the survey appends while the dashboard runs
FeedRows ==
    {Response("ab", "ab1", "", "s1", "A"),
     Response("feedback", "", "", "s1", "nice"),
     Response("rating", "img1", "act", "s1", "4")}

InitWith(s) ==
    /\ now = 0
    /\ sheet = s
    /\ cache = [valid |-> FALSE, snapshot |-> Unbound, fetchedAt |-> 0]
    /\ fetched = NoSheet
    /\ fetches = 0
    /\ last_call = "none"
    /\ replaced = 0
    /\ pc = "start"
    /\ error = NoError
    /\ error = NoError
    /\ selected = NoSelection
    /\ frames = NoFrames
    /\ out = NoOutput

Init == \E s \in Sheets : InitWith(s)

Run == LoadData \/ Kpi \/ Tab1 \/ Tab2 \/ Tab3 \/ Tab4 \/ Rerun

Spec == Init /\ [][Run]_vars

InitCache == \E h \in {Plain, Padded} : InitWith(MkSheet(h, <<>>))

NextCache ==
    \/ Run
    \/ \E d \in TickSteps : Tick(d)
    \/ \E r \in FeedRows : Append1(r)

SpecCache == InitCache /\ [][NextCache]_vars

----------------------------------------------------------------------------
(* Properties *)

Loaded == frames["df"] # Unbound

\* the raw text of the value cell of the i-th row of the payload last fetched
ValueText(i) ==
    fetched.rows[i][CHOOSE h \in fetched.header : h \in {"value", "Value"}]

\* the texts of the model that are numbers, with the number each one is
NumberOf ==
    [t \in {"2", "3", "4", "5", "12", "-4"} |->
        CASE t = "2" -> 2 [] t = "3" -> 3 [] t = "4" -> 4 [] t = "5" -> 5
          [] t = "12" -> 12 [] t = "-4" -> 0 - 4]

\* the rating records of the loaded frame for a metric and an image
RatingSubset(metric, image) ==
    SelectSeq(frames["df"].rows,
              LAMBDA r : r["type"] = "rating" /\ r["metric"] = metric
                         /\ r["image_name"] = image)

Defined(rows) == SelectSeq(rows, LAMBDA r : r["value_num"] # <<>>)

\* the image tabs of this run that show charts
Charts ==
    IF out.tab1.status = "rendered"
    THEN {t \in SeqToSet(out.tab1.images) : t.status = "charts"}
    ELSE {}

\* C1: a load_data() call made less than 60 seconds after the last fetch
\* returns the snapshot of that fetch and reads the sheet no more; a call
\* made when the entry is 60 seconds old or older reads the sheet, and what
\* it returns is the frame of the sheet as it is then, which replaces the
\* entry as a whole.
C1_CacheWindow ==
    [][(/\ pc = "start" /\ error = NoError
        /\ pc' # pc \/ error' # error
        /\ cache.valid)
       => IF now - cache.fetchedAt < 60
          THEN /\ fetches' = fetches
               /\ cache' = cache
               /\ frames'["df"] = load_frame(fetched)
          ELSE /\ fetches' = fetches + 1
               /\ error' = NoError =>
                    /\ cache' = [valid |-> TRUE, snapshot |-> load_frame(sheet),
                                 fetchedAt |-> now]
                    /\ frames'["df"] = load_frame(sheet)]_vars

\* C1 witness: a call served from an entry that was refreshed after the
\* window had expired, while the sheet has changed since
C1_Witness ==
    /\ pc = "kpi" /\ last_call = "hit" /\ replaced = 1
    /\ cache.fetchedAt >= 60 /\ now > cache.fetchedAt
    /\ sheet # fetched
    /\ frames["df"] = load_frame(fetched)

\* C9: no step of any tab changes the snapshot: the cache entry holds the
\* frame of the payload last fetched, and the frame df that load_data()
\* returned to the run is that frame, with its records, columns and values,
\* whatever the tabs have derived (choice, feedback_text) in their copies.
C9_SnapshotUntouched ==
    /\ cache.valid => cache.snapshot = load_frame(fetched)
    /\ Loaded =>
         /\ frames["df"] = cache.snapshot
         /\ frames["df"].cols \cap {"choice", "feedback_text"} = {}

\* C9 witness: a run served from the cache has rendered the comparison and
\* the feedback tab, each with its derived column in its own copy
C9_Witness ==
    /\ pc = "done" /\ last_call = "hit"
    /\ out.tab2.status = "rendered" /\ "choice" \in frames["this_ab"].cols
    /\ out.tab4.status = "rendered" /\ "feedback_text" \in frames["fb_df"].cols

\* C7: the loaded frame has one record per row of the payload, in its order,
\* and value_num is defined exactly for the values that are numbers, as that
\* number.
C7_ValueNum ==
    Loaded =>
      /\ Len(frames["df"].rows) = Len(fetched.rows)
      /\ \A i \in DOMAIN fetched.rows :
           LET r == frames["df"].rows[i]
               t == ValueText(i)
           IN /\ r["value"] = (IF t = "" THEN NaN ELSE t)
              /\ r["value_num"] # <<>> <=> t \in DOMAIN NumberOf
              /\ t \in DOMAIN NumberOf => r["value_num"] = <<NumberOf[t]>>

\* C7 witness: the values "3", "bad", "", "5" are loaded as 3, absent, absent, 5
C7_Witness ==
    /\ pc = "kpi"
    /\ Col(frames["df"], "value") = <<"3", "bad", NaN, "5">>
    /\ Col(frames["df"], "value_num") = << <<3>>, <<>>, <<>>, <<5>> >>

\* the defined ratings a participant gave in a subset
RatingsOf(rows, id) ==
    LET mine == SelectSeq(Defined(rows), LAMBDA r : r["session_id"] = id)
    IN [i \in DOMAIN mine |-> mine[i]["value_num"][1]]

Participants(rows) ==
    {r["session_id"] : r \in SeqToSet(Defined(rows))} \ {NaN}

\* C4: the per-participant mean of a rating subset has exactly one row per
\* session_id with a defined value_num in the subset, and the row holds the
\* mean of that participant's defined values; a participant whose values are
\* all absent has no row.
C4_PerParticipantMean ==
    \A t \in Charts :
      LET rows == RatingSubset(out.tab1.metric, t.image)
      IN /\ {x.session_id : x \in SeqToSet(t.per_user_df)} = Participants(rows)
         /\ Len(t.per_user_df) = Cardinality(Participants(rows))
         /\ \A x \in SeqToSet(t.per_user_df) :
              /\ x.value_num.n = Len(RatingsOf(rows, x.session_id))
              /\ x.value_num.sum = SumSeq(RatingsOf(rows, x.session_id))
              /\ x.value_num.n > 0

\* C4 witness: s1 has the mean of 4 and 2, and s2, whose only rating has no
\* number, has no row
C4_Witness ==
    \E t \in Charts :
      /\ t.per_user_df =
           <<[session_id |-> "s1", value_num |-> [sum |-> 6, n |-> 2]]>>
      /\ \E r \in SeqToSet(RatingSubset(out.tab1.metric, t.image)) :
           r["session_id"] = "s2" /\ r["value_num"] = <<>>

Ratings(rows) == {r["value_num"][1] : r \in SeqToSet(Defined(rows))}

Shown == SelectSeq(frames["df"].rows,
                   LAMBDA r : r["type"] = "ab"
                              /\ r["image_name"] = out.tab2.selected_comp)

CompKeys ==
    {r["image_name"] : r \in {x \in SeqToSet(frames["df"].rows) : x["type"] = "ab"}}
        \ {NaN}

MetricCodes ==
    {r["metric"] : r \in {x \in SeqToSet(frames["df"].rows) : x["type"] = "rating"}}
        \ {NaN}

C6_EmptyShowsPlaceholder ==
    /\ error # "StreamlitAPIException"
    /\ ~(pc = "tab1" /\ error # NoError /\ selected.metric = None)
    /\ ~(pc = "tab2" /\ error # NoError /\ selected.comp = None)
    /\ out.tab2.status = "rendered" => out.tab2.table # <<>>

\* C8: without the metric column the run does not fail
C8_NoMetricColumn ==
    Loaded /\ "metric" \notin frames["df"].cols => error = NoError

\* C10: the comparison shown is that of the key the selected label came
\* from, and selecting an offered label does not fail; the metric labels
\* lead back to their codes.
C10_LabelRoundTrip ==
    /\ out.tab2.status = "rendered" =>
         \A k \in CompKeys :
           pretty(k) = out.tab2.selected_pretty =>
             /\ out.tab2.selected_comp = k
             /\ \A i \in DOMAIN out.tab2.table :
                  out.tab2.table[i]["image_name"] = k
    /\ ~(pc = "tab2" /\ error # NoError /\ selected.comp # None
         /\ selected.comp \in {pretty(k) : k \in CompKeys})
    /\ \A m \in DOMAIN METRIC_LABELS : INV_METRIC_LABELS[METRIC_LABELS[m]] = m

====
